---- MODULE Spec2Model ----
(***************************************************************************)
(* Verification model of the amethyst verifiable-execution core:           *)
(*   - Access<T> and Access::merge      (verifiable_state/access.rs)       *)
(*   - EvmStateLog add_read / add_write (verifiable_state/evm.rs)          *)
(*   - the sorted-vector log merge      (verifiable_state/evm.rs)          *)
(*   - TxTree::merge                    (tx_trie.rs)                       *)
(* A Rust panic (assert!, assert_eq!, panic!, unreachable!) is modelled as *)
(* the value Panic(kind); the guest stops there, so a panicked machine     *)
(* takes no further step.                                                  *)
(***************************************************************************)
EXTENDS Integers, Sequences, FiniteSets, TLC

\* ------------------------------------------------------------------ bounds
\* Number of distinct payload values (account infos, words, hashes).
NumVals == 2
\* Number of add_read / add_write calls issued against one log.
MaxCalls == 3
\* Number of TxTree merges in one left-to-right chain.
MaxMerges == 2

Vals == 1..NumVals
\* Account addresses (H160), storage slots (U256), block numbers (u64).
Addrs == {1, 2}
Slots == {0}
BlockNums == {1}
\* State commitments, environments and transactions of a TxTree.
Commits == {1, 2}
Envs == {1, 2}
Txs == {1, 2}

\* ------------------------------------------------------------ Option<T>
None == <<>>
Some(v) == <<v>>
OptVals == {None} \cup {Some(v) : v \in Vals}

\* A panic of the running guest, tagged with the site that raised it.
Panic(kind) == [tag |-> "Panic", kind |-> kind]
IsPanic(r) == r.tag = "Panic"
\* A result that has not been computed yet.
Pending == [tag |-> "Pending"]

\* --------------------------------------------------------------- Access
Read(v) == [tag |-> "Read", value |-> v]
ReadThenWrite(o, m) == [tag |-> "ReadThenWrite", original |-> o, modified |-> m]
Write(v) == [tag |-> "Write", value |-> v]

AccessSet ==
    {Read(v) : v \in OptVals}
        \cup {ReadThenWrite(o, m) : o \in OptVals, m \in OptVals}
        \cup {Write(v) : v \in OptVals}

\* The nine arms of Access::merge, one operator per arm.
MergeReadRead(l, r) ==
    IF l.value = r.value THEN Read(l.value) ELSE Panic("CausalityViolation")

MergeReadRtw(l, r) ==
    IF l.value = r.original THEN r ELSE Panic("CausalityViolation")

MergeReadWrite(l, r) == ReadThenWrite(l.value, r.value)

\* Mutant: the Read is compared with the value read first, not the value
\* written last.
MergeRtwRead_ChecksOriginal(l, r) ==
    IF l.original = r.value THEN l ELSE Panic("CausalityViolation")

MergeRtwRead(l, r) ==
    IF l.modified = r.value THEN l ELSE Panic("CausalityViolation")

\* Mutant: the right operand's write is dropped.
MergeRtwRtw_KeepsModified(l, r) ==
    IF l.modified = r.original THEN l ELSE Panic("CausalityViolation")

MergeRtwRtw(l, r) ==
    IF l.modified = r.original
        THEN [l EXCEPT !.modified = r.modified]
        ELSE Panic("CausalityViolation")

MergeRtwWrite(l, r) == [l EXCEPT !.modified = r.value]

MergeWriteRead(l, r) ==
    IF l.value = r.value THEN Write(l.value) ELSE Panic("CausalityViolation")

\* Mutant: the left write survives instead of the right operand's write.
MergeWriteRtw_KeepsLeft(l, r) ==
    IF l.value = r.original THEN Write(l.value) ELSE Panic("CausalityViolation")

MergeWriteRtw(l, r) ==
    IF l.value = r.original THEN Write(r.modified) ELSE Panic("CausalityViolation")

MergeWriteWrite(l, r) == Write(r.value)

\* Access::merge(self, rhs): the match on the pair of variants.
AccessMerge(l, r) ==
    CASE l.tag = "Read" /\ r.tag = "Read" -> MergeReadRead(l, r)
      [] l.tag = "Read" /\ r.tag = "ReadThenWrite" -> MergeReadRtw(l, r)
      [] l.tag = "Read" /\ r.tag = "Write" -> MergeReadWrite(l, r)
      [] l.tag = "ReadThenWrite" /\ r.tag = "Read" -> MergeRtwRead(l, r)
      [] l.tag = "ReadThenWrite" /\ r.tag = "ReadThenWrite" -> MergeRtwRtw(l, r)
      [] l.tag = "ReadThenWrite" /\ r.tag = "Write" -> MergeRtwWrite(l, r)
      [] l.tag = "Write" /\ r.tag = "Read" -> MergeWriteRead(l, r)
      [] l.tag = "Write" /\ r.tag = "ReadThenWrite" -> MergeWriteRtw(l, r)
      [] l.tag = "Write" /\ r.tag = "Write" -> MergeWriteWrite(l, r)

\* ---------------------------------------------------------- EvmStateLog
\* A value returned without a panic.
Ok(v) == [tag |-> "Ok", val |-> v]

\* HashMap<K, V> as a function on the set of keys present.
EmptyMap == [k \in {} |-> None]
\* Mutant: the entry inserted is the only one the map keeps.
MapInsert_DropsOthers(map, key, value) == [k \in {key} |-> value]

MapInsert(map, key, value) ==
    [k \in DOMAIN map \cup {key} |-> IF k = key THEN value ELSE map[k]]

\* EvmStateEntry. A key is a tuple: <<address>> for an account,
\* <<address, slot>> for a storage slot (EvmStorageAddress), <<number>> for a
\* block hash.
Accounts(k, v) == [space |-> "Accounts", key |-> k, value |-> v]
Storage(k, v) == [space |-> "Storage", key |-> k, value |-> v]
Blockhash(n, h) == [space |-> "Blockhash", key |-> n, value |-> h]

AccountKeys == {<<a>> : a \in Addrs}
StorageKeys == {<<a, i>> : a \in Addrs, i \in Slots}
BlockhashKeys == {<<n>> : n \in BlockNums}
AccountEntries == {Accounts(k, v) : k \in AccountKeys, v \in OptVals}
StorageEntries == {Storage(k, v) : k \in StorageKeys, v \in OptVals}
BlockhashEntries == {Blockhash(n, h) : n \in BlockhashKeys, h \in OptVals}
Entries == AccountEntries \cup StorageEntries \cup BlockhashEntries

\* EvmStateLog { accounts, state, blockhashes }; Default is three empty maps.
EvmStateLog(a, s, b) == [accounts |-> a, state |-> s, blockhashes |-> b]
DefaultLog == EvmStateLog(EmptyMap, EmptyMap, EmptyMap)

\* Mutant: a read that follows a write is not compared with the value written.
ReadMatches_IgnoresWrite(existing, value) ==
    CASE existing.tag = "Read" -> existing.value = value
      [] existing.tag = "ReadThenWrite" -> TRUE
      [] existing.tag = "Write" -> TRUE

\* do_add_read, occupied entry: the assert_eq! of the arm of the existing
\* variant holds.
ReadMatches(existing, value) ==
    CASE existing.tag = "Read" -> existing.value = value
      [] existing.tag = "ReadThenWrite" -> existing.modified = value
      [] existing.tag = "Write" -> existing.value = value

\* Mutant: a consistent read replaces the stored Access by Read(value).
do_add_read_Overwrites(map, key, value) ==
    IF key \in DOMAIN map /\ ~ReadMatches(map[key], value)
        THEN Panic("CausalityViolation")
        ELSE Ok(MapInsert(map, key, Read(value)))

\* do_add_read(map, key, value)
do_add_read(map, key, value) ==
    IF key \in DOMAIN map
        THEN IF ReadMatches(map[key], value)
                THEN Ok(map)
                ELSE Panic("CausalityViolation")
        ELSE Ok(MapInsert(map, key, Read(value)))

\* do_add_write, occupied entry: the Access that replaces the existing one.
WriteOver(existing, value) ==
    CASE existing.tag = "Read" -> ReadThenWrite(existing.value, value)
      [] existing.tag = "ReadThenWrite" -> [existing EXCEPT !.modified = value]
      [] existing.tag = "Write" -> [existing EXCEPT !.value = value]

\* do_add_write(map, key, value)
do_add_write(map, key, value) ==
    IF key \in DOMAIN map
        THEN Ok(MapInsert(map, key, WriteOver(map[key], value)))
        ELSE Ok(MapInsert(map, key, Write(value)))

\* Mutant: the hash read last replaces the one recorded.
add_read_blockhash_Overwrites(map, blocknumber, hash) ==
    Ok(MapInsert(map, blocknumber, hash))

\* EvmStateLog::add_read, Blockhash arm.
add_read_blockhash(map, blocknumber, hash) ==
    IF blocknumber \in DOMAIN map
        THEN IF hash = map[blocknumber]
                THEN Ok(map)
                ELSE Panic("CausalityViolation")
        ELSE Ok(MapInsert(map, blocknumber, hash))

\* <EvmStateLog as OrderedReadLog>::add_read(&mut self, item): the log after
\* the call, or the panic.
add_read(log, item) ==
    CASE item.space = "Accounts" ->
            LET r == do_add_read(log.accounts, item.key, item.value) IN
            IF IsPanic(r) THEN r ELSE Ok([log EXCEPT !.accounts = r.val])
      [] item.space = "Storage" ->
            LET r == do_add_read(log.state, item.key, item.value) IN
            IF IsPanic(r) THEN r ELSE Ok([log EXCEPT !.state = r.val])
      [] item.space = "Blockhash" ->
            LET r == add_read_blockhash(log.blockhashes, item.key, item.value) IN
            IF IsPanic(r) THEN r ELSE Ok([log EXCEPT !.blockhashes = r.val])

\* add_write, Storage arm: assert!(v.is_some(), "Storage slots cannot be
\* deleted!") precedes do_add_write.
add_write_storage(map, key, value) ==
    IF value = None
        THEN Panic("StorageSlotDeleted")
        ELSE do_add_write(map, key, value)

\* <EvmStateLog as OrderedRwLog>::add_write(&mut self, item)
add_write(log, item) ==
    CASE item.space = "Accounts" ->
            LET r == do_add_write(log.accounts, item.key, item.value) IN
            IF IsPanic(r) THEN r ELSE Ok([log EXCEPT !.accounts = r.val])
      [] item.space = "Storage" ->
            LET r == add_write_storage(log.state, item.key, item.value) IN
            IF IsPanic(r) THEN r ELSE Ok([log EXCEPT !.state = r.val])
      [] item.space = "Blockhash" -> Panic("Unreachable")

\* ------------------------------------------- Vec<(EvmAddress, Access)>
\* The merged log: a sequence of <<address, Access>> pairs.
\* <Vec<(EvmAddress, Access)> as MergeableLog>::merge, the loop: `output` is
\* what has been pushed, lhs / rhs what the two iterators still hold
\* (left / right are their heads).
RECURSIVE VecMergeLoop(_, _, _)
VecMergeLoop(output, lhs, rhs) ==
    IF lhs = <<>> /\ rhs = <<>> THEN Ok(output)
    ELSE IF lhs = <<>> THEN Ok(output \o rhs)
    ELSE IF rhs = <<>> THEN Ok(output \o lhs)
    ELSE LET l == Head(lhs)
             r == Head(rhs)
         IN  IF l[1] < r[1]
                 THEN VecMergeLoop(Append(output, l), Tail(lhs), rhs)
             ELSE IF l[1] = r[1]
                 THEN LET merged == AccessMerge(l[2], r[2]) IN
                      IF IsPanic(merged)
                          THEN merged
                          ELSE VecMergeLoop(Append(output, <<l[1], merged>>),
                                            Tail(lhs), Tail(rhs))
             ELSE VecMergeLoop(Append(output, r), lhs, Tail(rhs))

VecMerge(lhs, rhs) == VecMergeLoop(<<>>, lhs, rhs)

\* HashMap::remove(&key), the map that is left
MapRemove(map, key) == [k \in DOMAIN map \ {key} |-> map[k]]

\* The orders in which a HashMap may hand out its keys: into_iter() promises
\* none, so each map iterates in any one order of the key universe.
KeyOrders ==
    {o \in [1..Cardinality(AccountKeys) -> AccountKeys] :
        \A i, j \in DOMAIN o : i # j => o[i] # o[j]}

\* map.into_iter() under the order o: the keys the map holds, as o lists them.
IterKeys(map, o) == SelectSeq(o, LAMBDA k : k \in DOMAIN map)

\* Mutant: the comparator is reversed (right_addr.cmp(left_addr)).
InsertByAddr_Descending(sorted, item) ==
    LET n == Cardinality({i \in 1..Len(sorted) : sorted[i][1] >= item[1]}) IN
    SubSeq(sorted, 1, n) \o <<item>> \o SubSeq(sorted, n + 1, Len(sorted))

\* One step of the stable sort: item goes behind every element whose address
\* is not greater than its own.
InsertByAddr(sorted, item) ==
    LET n == Cardinality({i \in 1..Len(sorted) : sorted[i][1] <= item[1]}) IN
    SubSeq(sorted, 1, n) \o <<item>> \o SubSeq(sorted, n + 1, Len(sorted))

\* Mutant: the output is returned as the loops pushed it.
SortByAddr_Unsorted(output) == output

\* output.sort_by(|(left_addr, _), (right_addr, _)| left_addr.cmp(right_addr))
RECURSIVE SortByAddr(_)
SortByAddr(output) ==
    IF output = <<>>
        THEN <<>>
        ELSE InsertByAddr(SortByAddr(SubSeq(output, 1, Len(output) - 1)),
                          output[Len(output)])

\* for (addr, right) in rhs.accounts.into_iter(): the entry is merged with
\* the one removed from self.accounts, or pushed as it is. Gives the output
\* and what is left of self.accounts, or the panic of Access::merge.
RECURSIVE MergeRhsLoop(_, _, _, _)
MergeRhsLoop(output, left, rhs, order) ==
    IF order = <<>>
        THEN Ok([output |-> output, left |-> left])
        ELSE LET addr == Head(order)
                 right == rhs[addr]
                 combined_entry == IF addr \in DOMAIN left
                                       THEN AccessMerge(left[addr], right)
                                       ELSE right
             IN  IF IsPanic(combined_entry)
                     THEN combined_entry
                     ELSE MergeRhsLoop(Append(output, <<addr[1], combined_entry>>),
                                       MapRemove(left, addr), rhs, Tail(order))

\* for item in self.accounts.into_iter() { output.push(item) }
PushRemaining(output, left, order) ==
    output \o [i \in 1..Len(order) |-> <<order[i][1], left[order[i]]>>]

\* The two loops of the merge: output as it stands before it is sorted, with
\* self.accounts iterating in selfOrder and rhs.accounts in rhsOrder.
MergeLoops(self, rhs, selfOrder, rhsOrder) ==
    LET looped == MergeRhsLoop(<<>>, self.accounts, rhs.accounts,
                               IterKeys(rhs.accounts, rhsOrder))
    IN  IF IsPanic(looped)
            THEN looped
            ELSE Ok(PushRemaining(looped.val.output, looped.val.left,
                                  IterKeys(looped.val.left, selfOrder)))

\* <EvmStateLog as MergeableLog>::merge(self, rhs). Only the accounts are
\* merged: self.state, rhs.state and the blockhashes are dropped.
EvmStateLogMerge(self, rhs, selfOrder, rhsOrder) ==
    LET output == MergeLoops(self, rhs, selfOrder, rhsOrder)
    IN  IF IsPanic(output) THEN output ELSE Ok(SortByAddr(output.val))

\* --------------------------------------------------------------- TxTree
\* Transition<S, L>
Applied(pre, post) == [tag |-> "Applied", pre |-> pre, post |-> post]
Logged(log) == [tag |-> "Logged", log |-> log]
Hybrid(pre, mid, log) == [tag |-> "Hybrid", pre |-> pre, mid |-> mid, log |-> log]

\* TxTree { includes, state_change, env }
TxTree(includes, state_change, env) ==
    [includes |-> includes, state_change |-> state_change, env |-> env]

\* The arms of the match in TxTree::merge, one operator per arm.
MergeAppliedApplied(l, r) ==
    IF l.post = r.pre THEN Applied(l.pre, r.post) ELSE Panic("CausalityViolation")

MergeAppliedLogged(l, r) == Hybrid(l.pre, l.post, r.log)

\* Mutant: the left post-state is not compared with the right pre-state.
MergeAppliedHybrid_Unchecked(l, r) == Hybrid(l.pre, r.mid, r.log)

MergeAppliedHybrid(l, r) ==
    IF l.post = r.pre THEN Hybrid(l.pre, r.mid, r.log) ELSE Panic("CausalityViolation")

MergeLoggedLogged(l, r) ==
    LET log == VecMerge(l.log, r.log) IN
    IF IsPanic(log) THEN log ELSE Logged(log.val)

\* Mutant: the two logs are merged right before left.
MergeHybridLogged_Swapped(l, r) ==
    LET log == VecMerge(r.log, l.log) IN
    IF IsPanic(log) THEN log ELSE Hybrid(l.pre, l.mid, log.val)

MergeHybridLogged(l, r) ==
    LET log == VecMerge(l.log, r.log) IN
    IF IsPanic(log) THEN log ELSE Hybrid(l.pre, l.mid, log.val)

\* panic!("Must apply left-hand transition before right-hand")
MergeLoggedApplied(l, r) == Panic("OrderingViolation")

\* Mutant: a Hybrid on the right of a Logged is absorbed, its endpoints
\* kept and the logs merged.
MergeLoggedHybrid_Absorbs(l, r) ==
    LET log == VecMerge(l.log, r.log) IN
    IF IsPanic(log) THEN log ELSE Hybrid(r.pre, r.mid, log.val)

MergeLoggedHybrid(l, r) == Panic("OrderingViolation")

\* panic!("Must fully apply left-hand transition before starting right-hand")
MergeHybridApplied(l, r) == Panic("OrderingViolation")

MergeHybridHybrid(l, r) == Panic("OrderingViolation")

\* The match on (lhs.state_change, rhs.state_change).
TransitionMerge(l, r) ==
    CASE l.tag = "Applied" /\ r.tag = "Applied" -> MergeAppliedApplied(l, r)
      [] l.tag = "Applied" /\ r.tag = "Logged" -> MergeAppliedLogged(l, r)
      [] l.tag = "Applied" /\ r.tag = "Hybrid" -> MergeAppliedHybrid(l, r)
      [] l.tag = "Logged" /\ r.tag = "Applied" -> MergeLoggedApplied(l, r)
      [] l.tag = "Logged" /\ r.tag = "Logged" -> MergeLoggedLogged(l, r)
      [] l.tag = "Logged" /\ r.tag = "Hybrid" -> MergeLoggedHybrid(l, r)
      [] l.tag = "Hybrid" /\ r.tag = "Applied" -> MergeHybridApplied(l, r)
      [] l.tag = "Hybrid" /\ r.tag = "Logged" -> MergeHybridLogged(l, r)
      [] l.tag = "Hybrid" /\ r.tag = "Hybrid" -> MergeHybridHybrid(l, r)

\* Mutant: the environments are compared after the transitions are combined.
TxTreeMerge_EnvCheckedLast(lhs, rhs) ==
    LET transition == TransitionMerge(lhs.state_change, rhs.state_change) IN
    IF IsPanic(transition)
        THEN transition
        ELSE IF lhs.env # rhs.env
            THEN Panic("EnvMismatch")
            ELSE Ok(TxTree(lhs.includes \o rhs.includes, transition, lhs.env))

\* Mutant: the right tree's transactions are put before the left tree's.
TxTreeMerge_IncludesSwapped(lhs, rhs) ==
    IF lhs.env # rhs.env
        THEN Panic("EnvMismatch")
        ELSE LET transition == TransitionMerge(lhs.state_change, rhs.state_change) IN
             IF IsPanic(transition)
                 THEN transition
                 ELSE Ok(TxTree(rhs.includes \o lhs.includes, transition, lhs.env))

\* Mutant: the transactions are appended only when the two lists differ.
TxTreeMerge_IncludesDeduplicated(lhs, rhs) ==
    IF lhs.env # rhs.env
        THEN Panic("EnvMismatch")
        ELSE LET transition == TransitionMerge(lhs.state_change, rhs.state_change) IN
             IF IsPanic(transition)
                 THEN transition
                 ELSE Ok(TxTree(IF lhs.includes = rhs.includes
                                    THEN lhs.includes
                                    ELSE lhs.includes \o rhs.includes,
                                transition, lhs.env))

\* TxTree::merge(lhs, rhs)
TxTreeMerge(lhs, rhs) ==
    IF lhs.env # rhs.env
        THEN Panic("EnvMismatch")
        ELSE LET transition == TransitionMerge(lhs.state_change, rhs.state_change) IN
             IF IsPanic(transition)
                 THEN transition
                 ELSE Ok(TxTree(lhs.includes \o rhs.includes, transition, lhs.env))

\* The trees handed to merge: any transition over the commitments and over
\* the merged logs of at most one entry, one transaction, any environment.
TreeVals == {None, Some(1)}
LeafAccesses == {Read(v) : v \in TreeVals} \cup {Write(v) : v \in TreeVals}
TreeLogs == {<<>>} \cup {<<<<a, x>>>> : a \in Addrs, x \in LeafAccesses}
Transitions ==
    {Applied(a, b) : a \in Commits, b \in Commits}
        \cup {Logged(l) : l \in TreeLogs}
        \cup {Hybrid(a, b, l) : a \in Commits, b \in Commits, l \in TreeLogs}
TreeSet == {TxTree(<<tx>>, t, e) : tx \in Txs, t \in Transitions, e \in Envs}

\* ---------------------------------------------------------------- state
VARIABLES
    \* Access::merge harness: three operands and the four merges of the
    \* two bracketings.
    ma, mb, mc, mab, mbc, mab_c, ma_bc,
    \* One EvmStateLog under execution: its three maps, whether the guest
    \* is still running ("Ok") or the kind of panic that stopped it, and
    \* the calls issued so far (the last one is the panicking call, if any).
    accounts, state, blockhashes, status, calls,
    \* TxTree::merge harness: the operands of the last merge, its result
    \* (Ok(tree) or the panic) and the number of merges done; the includes
    \* of the first root and of every rhs merged into it, in merge order;
    \* the result of the last merge with its operands swapped.
    tlhs, trhs, tout, nmerges, tleaves, tswap,
    \* Log merge harness: a call sequence is cut in two; mlhs is the log of
    \* the calls before the cut, mrhs the log of those after it, whole the
    \* log (or panic) of one guest running them all; phase is where the run
    \* stands and ncalls the calls issued; mout is mlhs.merge(mrhs); vlhs and
    \* vrhs are each log merged on its own and vout is vlhs.merge(vrhs).
    mlhs, mrhs, whole, phase, ncalls, mout, vlhs, vrhs, vout,
    \* HostDB harness: the log the HostDB borrows; the last operation called
    \* on it, with the record the host supplied; what the operation returned
    \* (or its panic); the add_read / add_write calls it issued on the log;
    \* the number of records read from the host channel so far; the number
    \* of queries made; whether commit has run.
    hlog, hcall, hret, hissued, cursor, nqueries, hsealed,
    \* TxTree::merge associativity harness: three trees and the four merges
    \* of the two bracketings.
    ta, tb, tc, tab, tbc, tab_c, ta_bc,
    \* Three-log merge harness: three hashed logs; fab is fa.merge(fb), fvc
    \* the merged form of fc and fab_c is fab.merge(fvc); fva and fvb are the
    \* merged forms of fa and fb, and fvab, fvbc, fvab_c, fva_bc the merges of
    \* the two bracketings of fva, fvb, fvc.
    fa, fb, fc, fab, fvc, fab_c, fva, fvb, fvab, fvbc, fvab_c, fva_bc

foldVars == <<fa, fb, fc, fab, fvc, fab_c, fva, fvb, fvab, fvbc, fvab_c, fva_bc>>
assocVars == <<ta, tb, tc, tab, tbc, tab_c, ta_bc>>
hostVars == <<hlog, hcall, hret, hissued, cursor, nqueries, hsealed>>
splitVars == <<mlhs, mrhs, whole, phase, ncalls, mout, vlhs, vrhs, vout>>
treeVars == <<tlhs, trhs, tout, nmerges, tleaves, tswap>>

logVars == <<accounts, state, blockhashes, status, calls>>

vars == <<ma, mb, mc, mab, mbc, mab_c, ma_bc, accounts, state, blockhashes, status, calls,
          tlhs, trhs, tout, nmerges, tleaves, tswap,
          mlhs, mrhs, whole, phase, ncalls, mout, vlhs, vrhs, vout,
          hlog, hcall, hret, hissued, cursor, nqueries, hsealed,
          ta, tb, tc, tab, tbc, tab_c, ta_bc,
          fa, fb, fc, fab, fvc, fab_c, fva, fvb, fvab, fvbc, fvab_c, fva_bc>>

accessVars == <<ma, mb, mc, mab, mbc, mab_c, ma_bc>>

\* The harnesses that a specification does not run stay idle.
AccessIdle ==
    /\ ma = Pending
    /\ mb = Pending
    /\ mc = Pending
    /\ mab = Pending
    /\ mbc = Pending
    /\ mab_c = Pending
    /\ ma_bc = Pending

LogIdle ==
    /\ accounts = EmptyMap
    /\ state = EmptyMap
    /\ blockhashes = EmptyMap
    /\ status = "Ok"
    /\ calls = <<>>

TreeIdle ==
    /\ tlhs = Pending
    /\ trhs = Pending
    /\ tout = Pending
    /\ nmerges = 0
    /\ tleaves = <<>>
    /\ tswap = Pending

SplitIdle ==
    /\ mlhs = DefaultLog
    /\ mrhs = DefaultLog
    /\ whole = Ok(DefaultLog)
    /\ phase = "idle"
    /\ ncalls = 0
    /\ mout = Pending
    /\ vlhs = Pending
    /\ vrhs = Pending
    /\ vout = Pending

\* A HostDB operation as the harness records it.
Call(op, args, payload) == [op |-> op, args |-> args, payload |-> payload]

HostIdle ==
    /\ hlog = DefaultLog
    /\ hcall = Call("none", <<>>, <<>>)
    /\ hret = Pending
    /\ hissued = <<>>
    /\ cursor = 0
    /\ nqueries = 0
    /\ hsealed = FALSE

AssocIdle ==
    /\ ta = Pending
    /\ tb = Pending
    /\ tc = Pending
    /\ tab = Pending
    /\ tbc = Pending
    /\ tab_c = Pending
    /\ ta_bc = Pending

FoldIdle ==
    /\ fa = DefaultLog
    /\ fb = DefaultLog
    /\ fc = DefaultLog
    /\ fab = Pending
    /\ fvc = Pending
    /\ fab_c = Pending
    /\ fva = Pending
    /\ fvb = Pending
    /\ fvab = Pending
    /\ fvbc = Pending
    /\ fvab_c = Pending
    /\ fva_bc = Pending

\* ------------------------------------------------- Access::merge harness
AccessInit ==
    /\ ma \in AccessSet
    /\ mb \in AccessSet
    /\ mc \in AccessSet
    /\ mab = Pending
    /\ mbc = Pending
    /\ mab_c = Pending
    /\ ma_bc = Pending
    /\ LogIdle
    /\ TreeIdle
    /\ SplitIdle
    /\ HostIdle
    /\ AssocIdle
    /\ FoldIdle

\* a.merge(b)
MergeAB ==
    /\ mab = Pending
    /\ mab' = AccessMerge(ma, mb)
    /\ UNCHANGED <<ma, mb, mc, mbc, mab_c, ma_bc>>
    /\ UNCHANGED <<logVars, treeVars, splitVars, hostVars, assocVars, foldVars>>

\* b.merge(c)
MergeBC ==
    /\ mbc = Pending
    /\ mbc' = AccessMerge(mb, mc)
    /\ UNCHANGED <<ma, mb, mc, mab, mab_c, ma_bc>>
    /\ UNCHANGED <<logVars, treeVars, splitVars, hostVars, assocVars, foldVars>>

\* a.merge(b).merge(c): runs only if a.merge(b) returned.
MergeAB_C ==
    /\ mab # Pending
    /\ ~IsPanic(mab)
    /\ mab_c = Pending
    /\ mab_c' = AccessMerge(mab, mc)
    /\ UNCHANGED <<ma, mb, mc, mab, mbc, ma_bc>>
    /\ UNCHANGED <<logVars, treeVars, splitVars, hostVars, assocVars, foldVars>>

\* a.merge(b.merge(c)): runs only if b.merge(c) returned.
MergeA_BC ==
    /\ mbc # Pending
    /\ ~IsPanic(mbc)
    /\ ma_bc = Pending
    /\ ma_bc' = AccessMerge(ma, mbc)
    /\ UNCHANGED <<ma, mb, mc, mab, mbc, mab_c>>
    /\ UNCHANGED <<logVars, treeVars, splitVars, hostVars, assocVars, foldVars>>

AccessNext == MergeAB \/ MergeBC \/ MergeAB_C \/ MergeA_BC

SpecAccess == AccessInit /\ [][AccessNext]_vars

\* ------------------------------------------------ one log under execution
ThisLog == EvmStateLog(accounts, state, blockhashes)

LogInit ==
    /\ accounts = EmptyMap
    /\ state = EmptyMap
    /\ blockhashes = EmptyMap
    /\ status = "Ok"
    /\ calls = <<>>
    /\ AccessIdle
    /\ TreeIdle
    /\ SplitIdle
    /\ HostIdle
    /\ AssocIdle
    /\ FoldIdle

ReadCall(item) == [op |-> "add_read", item |-> item]
WriteCall(item) == [op |-> "add_write", item |-> item]

\* The effect of one call on the running guest: the log is replaced by the
\* call's result, or the guest stops with the panic and the log is dead.
Apply(r, call) ==
    /\ calls' = Append(calls, call)
    /\ IF IsPanic(r)
          THEN /\ status' = r.kind
               /\ UNCHANGED <<accounts, state, blockhashes>>
          ELSE /\ status' = "Ok"
               /\ accounts' = r.val.accounts
               /\ state' = r.val.state
               /\ blockhashes' = r.val.blockhashes

\* log.add_read(&item)
AddRead ==
    /\ status = "Ok"
    /\ Len(calls) < MaxCalls
    /\ \E item \in Entries : Apply(add_read(ThisLog, item), ReadCall(item))
    /\ UNCHANGED <<accessVars, treeVars, splitVars, hostVars, assocVars, foldVars>>

\* log.add_write(item)
AddWrite ==
    /\ status = "Ok"
    /\ Len(calls) < MaxCalls
    /\ \E item \in Entries : Apply(add_write(ThisLog, item), WriteCall(item))
    /\ UNCHANGED <<accessVars, treeVars, splitVars, hostVars, assocVars, foldVars>>

LogNext == AddRead \/ AddWrite

SpecLog == LogInit /\ [][LogNext]_vars

\* --------------------------------------------------- TxTree::merge harness
\* The root starts as any tree; each merge takes the root as lhs and any
\* tree as rhs, and its result is the next root.
TreeInit ==
    /\ tlhs = Pending
    /\ trhs = Pending
    /\ tout \in {Ok(t) : t \in TreeSet}
    /\ nmerges = 0
    /\ tleaves = <<tout.val.includes>>
    /\ tswap = Pending
    /\ AccessIdle
    /\ LogIdle
    /\ SplitIdle
    /\ HostIdle
    /\ AssocIdle
    /\ FoldIdle

\* TxTree::merge(root, rhs)
MergeTrees ==
    /\ ~IsPanic(tout)
    /\ nmerges < MaxMerges
    /\ \E rhs \in TreeSet :
        /\ tlhs' = tout.val
        /\ trhs' = rhs
        /\ tout' = TxTreeMerge(tout.val, rhs)
        /\ tleaves' = Append(tleaves, rhs.includes)
    /\ nmerges' = nmerges + 1
    /\ tswap' = Pending
    /\ UNCHANGED <<accessVars, logVars, splitVars, hostVars, assocVars, foldVars>>

\* TxTree::merge(rhs, root): the last merge again, its operands swapped.
MergeSwapped ==
    /\ tlhs # Pending
    /\ tswap = Pending
    /\ tswap' = TxTreeMerge(trhs, tlhs)
    /\ UNCHANGED <<tlhs, trhs, tout, nmerges, tleaves>>
    /\ UNCHANGED <<accessVars, logVars, splitVars, hostVars, assocVars, foldVars>>

TreeNext == MergeTrees \/ MergeSwapped

SpecTree == TreeInit /\ [][TreeNext]_vars

\* ------------------------------------------ TxTree::merge, three operands

\* The trees of this harness: those of TreeSet whose log, if any, is on
\* address 1.
AssocTrees ==
    {t \in TreeSet :
        t.state_change.tag = "Applied"
            \/ \A i \in DOMAIN t.state_change.log : t.state_change.log[i][1] = 1}

\* Three trees of one environment; neighbours hold different transactions.
AssocInit ==
    /\ ta \in AssocTrees
    /\ tb \in AssocTrees
    /\ tc \in AssocTrees
    /\ ta.env = tb.env
    /\ tb.env = tc.env
    /\ ta.includes # tb.includes
    /\ tb.includes # tc.includes
    /\ tab = Pending
    /\ tbc = Pending
    /\ tab_c = Pending
    /\ ta_bc = Pending
    /\ AccessIdle
    /\ LogIdle
    /\ TreeIdle
    /\ SplitIdle
    /\ HostIdle
    /\ FoldIdle

\* TxTree::merge(a, b)
TreeMergeAB ==
    /\ tab = Pending
    /\ tab' = TxTreeMerge(ta, tb)
    /\ UNCHANGED <<ta, tb, tc, tbc, tab_c, ta_bc>>
    /\ UNCHANGED <<accessVars, logVars, treeVars, splitVars, hostVars, foldVars>>

\* TxTree::merge(b, c)
TreeMergeBC ==
    /\ tbc = Pending
    /\ tbc' = TxTreeMerge(tb, tc)
    /\ UNCHANGED <<ta, tb, tc, tab, tab_c, ta_bc>>
    /\ UNCHANGED <<accessVars, logVars, treeVars, splitVars, hostVars, foldVars>>

\* TxTree::merge(TxTree::merge(a, b), c): a panic of the inner merge is the
\* panic of the whole expression.
TreeMergeAB_C ==
    /\ tab # Pending
    /\ tab_c = Pending
    /\ tab_c' = IF IsPanic(tab) THEN tab ELSE TxTreeMerge(tab.val, tc)
    /\ UNCHANGED <<ta, tb, tc, tab, tbc, ta_bc>>
    /\ UNCHANGED <<accessVars, logVars, treeVars, splitVars, hostVars, foldVars>>

\* TxTree::merge(a, TxTree::merge(b, c))
TreeMergeA_BC ==
    /\ tbc # Pending
    /\ ta_bc = Pending
    /\ ta_bc' = IF IsPanic(tbc) THEN tbc ELSE TxTreeMerge(ta, tbc.val)
    /\ UNCHANGED <<ta, tb, tc, tab, tbc, tab_c>>
    /\ UNCHANGED <<accessVars, logVars, treeVars, splitVars, hostVars, foldVars>>

AssocNext == TreeMergeAB \/ TreeMergeBC \/ TreeMergeAB_C \/ TreeMergeA_BC

SpecAssoc == AssocInit /\ [][AssocNext]_vars

\* ------------------------------------------------------- log merge harness

\* The entries the guests of this harness read and write.
SplitEntries == {e \in Entries : e.value \in TreeVals}

SplitInit ==
    /\ mlhs = DefaultLog
    /\ mrhs = DefaultLog
    /\ whole = Ok(DefaultLog)
    /\ phase = "prefix"
    /\ ncalls = 0
    /\ mout = Pending
    /\ vlhs = Pending
    /\ vrhs = Pending
    /\ vout = Pending
    /\ AccessIdle
    /\ LogIdle
    /\ TreeIdle
    /\ HostIdle
    /\ AssocIdle
    /\ FoldIdle

\* The call on a log: add_read(&item) or add_write(item).
CallOn(log, call) ==
    IF call.op = "add_read" THEN add_read(log, call.item) ELSE add_write(log, call.item)

\* The guest running the whole sequence makes the call too, unless it has
\* panicked already.
WholeCall(call) ==
    whole' = (IF IsPanic(whole) THEN whole ELSE CallOn(whole.val, call))

\* A call of the part before the cut; a panic ends that guest and the run.
LhsCall(call) ==
    /\ phase = "prefix"
    /\ ncalls < MaxCalls
    /\ LET r == CallOn(mlhs, call) IN
           IF IsPanic(r)
               THEN /\ phase' = "dead"
                    /\ UNCHANGED mlhs
               ELSE /\ mlhs' = r.val
                    /\ UNCHANGED phase
    /\ WholeCall(call)
    /\ ncalls' = ncalls + 1
    /\ UNCHANGED <<mrhs, mout, vlhs, vrhs, vout>>
    /\ UNCHANGED <<accessVars, logVars, treeVars, hostVars, assocVars, foldVars>>

\* mlhs.add_read(&item)
LhsRead == \E item \in SplitEntries : LhsCall(ReadCall(item))

\* mlhs.add_write(item)
LhsWrite == \E item \in SplitEntries : LhsCall(WriteCall(item))

\* The sequence is cut here: the calls that follow go to a fresh log.
Cut ==
    /\ phase = "prefix"
    /\ phase' = "suffix"
    /\ UNCHANGED <<mlhs, mrhs, whole, ncalls, mout, vlhs, vrhs, vout>>
    /\ UNCHANGED <<accessVars, logVars, treeVars, hostVars, assocVars, foldVars>>

\* A call of the part after the cut.
RhsCall(call) ==
    /\ phase = "suffix"
    /\ ncalls < MaxCalls
    /\ LET r == CallOn(mrhs, call) IN
           IF IsPanic(r)
               THEN /\ phase' = "dead"
                    /\ UNCHANGED mrhs
               ELSE /\ mrhs' = r.val
                    /\ UNCHANGED phase
    /\ WholeCall(call)
    /\ ncalls' = ncalls + 1
    /\ UNCHANGED <<mlhs, mout, vlhs, vrhs, vout>>
    /\ UNCHANGED <<accessVars, logVars, treeVars, hostVars, assocVars, foldVars>>

\* mrhs.add_read(&item)
RhsRead == \E item \in SplitEntries : RhsCall(ReadCall(item))

\* mrhs.add_write(item)
RhsWrite == \E item \in SplitEntries : RhsCall(WriteCall(item))

\* mlhs.merge(mrhs), each map iterating in an order of its own.
MergeLogs ==
    /\ phase = "suffix"
    /\ phase' = "merged"
    /\ \E selfOrder \in KeyOrders, rhsOrder \in KeyOrders :
           mout' = EvmStateLogMerge(mlhs, mrhs, selfOrder, rhsOrder)
    /\ UNCHANGED <<mlhs, mrhs, whole, ncalls, vlhs, vrhs, vout>>
    /\ UNCHANGED <<accessVars, logVars, treeVars, hostVars, assocVars, foldVars>>

\* mlhs.merge(default).merge(mrhs.merge(default)): each log is turned into a
\* merged log by itself, and the two merged logs are merged.
MergeMerged ==
    /\ phase = "merged"
    /\ phase' = "remerged"
    /\ \E o1 \in KeyOrders, o2 \in KeyOrders :
           /\ vlhs' = EvmStateLogMerge(mlhs, DefaultLog, o1, o1)
           /\ vrhs' = EvmStateLogMerge(mrhs, DefaultLog, o2, o2)
    /\ vout' = VecMerge(vlhs'.val, vrhs'.val)
    /\ UNCHANGED <<mlhs, mrhs, whole, ncalls, mout>>
    /\ UNCHANGED <<accessVars, logVars, treeVars, hostVars, assocVars, foldVars>>

SplitNext ==
    \/ LhsRead
    \/ LhsWrite
    \/ Cut
    \/ RhsRead
    \/ RhsWrite
    \/ MergeLogs
    \/ MergeMerged

SpecSplit == SplitInit /\ [][SplitNext]_vars

\* ------------------------------------------------- log merge, three logs

\* The logs of this harness: any account map with Read and Write records,
\* and either no storage record or slot 0 of address 1 read as absent.
FoldAccounts == UNION {[ks -> LeafAccesses] : ks \in SUBSET AccountKeys}
FoldStates == {EmptyMap, [k \in {<<1, 0>>} |-> Read(None)]}
FoldLogs == {EvmStateLog(a, st, EmptyMap) : a \in FoldAccounts, st \in FoldStates}

FoldInit ==
    /\ fa \in FoldLogs
    /\ fb \in FoldLogs
    /\ fc \in FoldLogs
    /\ fab = Pending
    /\ fvc = Pending
    /\ fab_c = Pending
    /\ fva = Pending
    /\ fvb = Pending
    /\ fvab = Pending
    /\ fvbc = Pending
    /\ fvab_c = Pending
    /\ fva_bc = Pending
    /\ AccessIdle
    /\ LogIdle
    /\ TreeIdle
    /\ SplitIdle
    /\ HostIdle
    /\ AssocIdle

\* fa.merge(fb), the hashed merge
FoldMergeAB ==
    /\ fab = Pending
    /\ \E selfOrder \in KeyOrders, rhsOrder \in KeyOrders :
           fab' = EvmStateLogMerge(fa, fb, selfOrder, rhsOrder)
    /\ UNCHANGED <<fa, fb, fc, fvc, fab_c, fva, fvb, fvab, fvbc, fvab_c, fva_bc>>
    /\ UNCHANGED <<accessVars, logVars, treeVars, splitVars, hostVars, assocVars>>

\* fa.merge(fb).merge(fc.merge(default)): fc is turned into a merged log by
\* itself and merged into the merged log of fa and fb.
FoldMergeAB_C ==
    /\ fab # Pending
    /\ fab_c = Pending
    /\ \E o \in KeyOrders : fvc' = EvmStateLogMerge(fc, DefaultLog, o, o)
    /\ fab_c' = IF IsPanic(fab) THEN fab ELSE VecMerge(fab.val, fvc'.val)
    /\ UNCHANGED <<fa, fb, fc, fab, fva, fvb, fvab, fvbc, fvab_c, fva_bc>>
    /\ UNCHANGED <<accessVars, logVars, treeVars, splitVars, hostVars, assocVars>>

\* fa.merge(default) and fb.merge(default): the merged forms of fa and fb.
FoldMerged ==
    /\ fab_c # Pending
    /\ fva = Pending
    /\ \E o1 \in KeyOrders, o2 \in KeyOrders :
           /\ fva' = EvmStateLogMerge(fa, DefaultLog, o1, o1)
           /\ fvb' = EvmStateLogMerge(fb, DefaultLog, o2, o2)
    /\ UNCHANGED <<fa, fb, fc, fab, fvc, fab_c, fvab, fvbc, fvab_c, fva_bc>>
    /\ UNCHANGED <<accessVars, logVars, treeVars, splitVars, hostVars, assocVars>>

\* fva.merge(fvb), the merge of two merged logs
FoldVecAB ==
    /\ fva # Pending
    /\ fvab = Pending
    /\ fvab' = VecMerge(fva.val, fvb.val)
    /\ UNCHANGED <<fa, fb, fc, fab, fvc, fab_c, fva, fvb, fvbc, fvab_c, fva_bc>>
    /\ UNCHANGED <<accessVars, logVars, treeVars, splitVars, hostVars, assocVars>>

\* fvb.merge(fvc)
FoldVecBC ==
    /\ fvab # Pending
    /\ fvbc = Pending
    /\ fvbc' = VecMerge(fvb.val, fvc.val)
    /\ UNCHANGED <<fa, fb, fc, fab, fvc, fab_c, fva, fvb, fvab, fvab_c, fva_bc>>
    /\ UNCHANGED <<accessVars, logVars, treeVars, splitVars, hostVars, assocVars>>

\* fva.merge(fvb).merge(fvc): a panic of the inner merge is the panic of the
\* whole expression.
FoldVecAB_C ==
    /\ fvab # Pending
    /\ fvbc # Pending
    /\ fvab_c = Pending
    /\ fvab_c' = IF IsPanic(fvab) THEN fvab ELSE VecMerge(fvab.val, fvc.val)
    /\ UNCHANGED <<fa, fb, fc, fab, fvc, fab_c, fva, fvb, fvab, fvbc, fva_bc>>
    /\ UNCHANGED <<accessVars, logVars, treeVars, splitVars, hostVars, assocVars>>

\* fva.merge(fvb.merge(fvc))
FoldVecA_BC ==
    /\ fvab_c # Pending
    /\ fva_bc = Pending
    /\ fva_bc' = IF IsPanic(fvbc) THEN fvbc ELSE VecMerge(fva.val, fvbc.val)
    /\ UNCHANGED <<fa, fb, fc, fab, fvc, fab_c, fva, fvb, fvab, fvbc, fvab_c>>
    /\ UNCHANGED <<accessVars, logVars, treeVars, splitVars, hostVars, assocVars>>

FoldNext ==
    \/ FoldMergeAB
    \/ FoldMergeAB_C
    \/ FoldMerged
    \/ FoldVecAB
    \/ FoldVecBC
    \/ FoldVecAB_C
    \/ FoldVecA_BC

SpecFold == FoldInit /\ [][FoldNext]_vars

\* ---------------------------------------------------------------- HostDB

\* revm::AccountInfo, as far as HostDB looks at it: a balance and the code
\* that may be carried inline.
AccountInfo(balance, code) == [balance |-> balance, code |-> code]
Balances == {0, 1}
Codes == {1, 2}
AccountInfos == {AccountInfo(b, c) : b \in Balances, c \in {None, Some(1)}}

\* What the host may supply to basic: Option<AccountInfo>.
HostAccounts == {None} \cup {Some(info) : info \in AccountInfos}

\* U256 words; what the host may supply to storage: Option<U256>.
Words == {0, 1}
HostWords == {None} \cup {Some(w) : w \in Words}

\* What the host may supply to block_hash: Option<H256>.
HostHashes == {None, Some(1)}

\* The U256 block numbers block_hash is asked for: those of BlockNums fit in
\* a u64, the other one does not.
U256Numbers == BlockNums \cup {2}

\* keccak256(bytes): the digest, a value of its own for every input.
keccak256(bytes) == <<"keccak256", bytes>>
CodeHashes == {keccak256(c) : c \in Codes}

\* revm::Bytecode::new_raw_with_hash(raw_code, computed_hash)
Bytecode(raw_code, hash) == [bytes |-> raw_code, hash |-> hash]

\* U256::as_u64: the number, or the panic when it does not fit in a u64.
as_u64(number) ==
    IF number \in BlockNums THEN Ok(number) ELSE Panic("IntegerOverflow")

\* Err(e) of a Result.
Err(e) == [tag |-> "Err", err |-> e]

\* An operation under way: the log, the calls issued on it, the records read
\* from the host, and the result so far (a panic ends the operation).
Begin(log, reads) == [log |-> log, issued |-> <<>>, reads |-> reads, ret |-> Ok(<<>>)]

\* self.log.add_read(..) / self.log.add_write(..) inside an operation.
LogCall(s, call) ==
    IF IsPanic(s.ret)
        THEN s
        ELSE LET r == CallOn(s.log, call) IN
             IF IsPanic(r)
                 THEN [s EXCEPT !.issued = Append(@, call), !.ret = r]
                 ELSE [s EXCEPT !.issued = Append(@, call), !.log = r.val]

\* The operation returns ret, unless it has panicked.
Return(s, ret) == IF IsPanic(s.ret) THEN s ELSE [s EXCEPT !.ret = ret]

\* Mutant: the account is logged before the inline code is looked at.
basic_LogsBeforeCheck(log, address, acct) ==
    IF acct # None /\ acct[1].code # None
        THEN Return(LogCall(Begin(log, 1), ReadCall(Accounts(<<address>>, acct))),
                    Panic("UnverifiedBytecode"))
        ELSE Return(LogCall(Begin(log, 1), ReadCall(Accounts(<<address>>, acct))),
                    Ok(acct))

\* HostDB::basic(address), the host supplying acct
basic(log, address, acct) ==
    IF acct # None /\ acct[1].code # None
        THEN Return(Begin(log, 1), Panic("UnverifiedBytecode"))
        ELSE Return(LogCall(Begin(log, 1), ReadCall(Accounts(<<address>>, acct))),
                    Ok(acct))

\* Mutant: the bytes are returned under the hash asked for, unchecked.
code_by_hash_Unchecked(log, code_hash, raw_code) ==
    Return(Begin(log, 1), Ok(Bytecode(raw_code, code_hash)))

\* HostDB::code_by_hash(code_hash), the host supplying raw_code
code_by_hash(log, code_hash, raw_code) ==
    LET computed_hash == keccak256(raw_code) IN
    IF computed_hash # code_hash
        THEN Return(Begin(log, 1), Panic("HashMismatch"))
        ELSE Return(Begin(log, 1), Ok(Bytecode(raw_code, computed_hash)))

\* Option::unwrap_or_default on Option<U256>
unwrap_or_default(val) == IF val = None THEN 0 ELSE val[1]

\* Mutant: the word returned is the one logged (an absent slot as Some(0)).
storage_LogsDefault(log, address, index, val) ==
    Return(LogCall(Begin(log, 1),
                   ReadCall(Storage(<<address, index>>, Some(unwrap_or_default(val))))),
           Ok(unwrap_or_default(val)))

\* HostDB::storage(address, index), the host supplying val
storage(log, address, index, val) ==
    Return(LogCall(Begin(log, 1), ReadCall(Storage(<<address, index>>, val))),
           Ok(unwrap_or_default(val)))

\* Mutant: an absent hash is refused before it is logged.
block_hash_FailsBeforeLog(log, number, val) ==
    LET n == as_u64(number) IN
    IF IsPanic(n)
        THEN Return(Begin(log, 1), n)
        ELSE IF val = None
            THEN Return(Begin(log, 1), Err("InvalidBlockHashRequest"))
            ELSE Return(LogCall(Begin(log, 1), ReadCall(Blockhash(<<n.val>>, val))),
                        Ok(val[1]))

\* HostDB::block_hash(number), the host supplying val
block_hash(log, number, val) ==
    LET n == as_u64(number) IN
    IF IsPanic(n)
        THEN Return(Begin(log, 1), n)
        ELSE Return(LogCall(Begin(log, 1), ReadCall(Blockhash(<<n.val>>, val))),
                    IF val = None THEN Err("InvalidBlockHashRequest") ELSE Ok(val[1]))

\* revm::Account as commit looks at it; storage maps a touched slot to its
\* present_value().
Account(is_destroyed, info, touched) ==
    [is_destroyed |-> is_destroyed, info |-> info, storage |-> touched]

\* Account::is_empty(): no balance and no code.
is_empty(acct) == acct.info.balance = 0 /\ acct.info.code = None

\* The accounts of a change-set, and the change-sets commit is given.
StorageDeltas ==
    UNION {[D -> Words] : D \in SUBSET Slots}
ChangedAccounts ==
    {Account(d, AccountInfo(b, None), st) :
        d \in BOOLEAN, b \in Balances, st \in StorageDeltas}
ChangeSets == UNION {[D -> ChangedAccounts] : D \in SUBSET Addrs}

\* The orders in which changes and acct.storage may hand out their keys.
AddrOrders ==
    {o \in [1..Cardinality(Addrs) -> Addrs] : \A i, j \in DOMAIN o : i # j => o[i] # o[j]}
SlotOrders ==
    {o \in [1..Cardinality(Slots) -> Slots] : \A i, j \in DOMAIN o : i # j => o[i] # o[j]}

\* for (slot, value) in acct.storage { ... }
RECURSIVE CommitStorage(_, _, _, _)
CommitStorage(s, addr, acct_storage, slots) ==
    IF slots = <<>>
        THEN s
        ELSE LET slot == Head(slots)
                 value == acct_storage[slot]
                 location == <<addr, slot>>
             IN  CommitStorage(
                     LogCall(s, WriteCall(Storage(location,
                                                  IF value = 0 THEN None ELSE Some(value)))),
                     addr, acct_storage, Tail(slots))

\* Mutant: the storage of a destroyed or empty account is written too.
CommitAccount_WritesStorageOfDestroyed(s, addr, acct, slotOrder) ==
    IF acct.is_destroyed \/ is_empty(acct)
        THEN CommitStorage(LogCall(s, WriteCall(Accounts(<<addr>>, None))),
                           addr, acct.storage, IterKeys(acct.storage, slotOrder))
        ELSE CommitStorage(LogCall(s, WriteCall(Accounts(<<addr>>, Some(acct.info)))),
                           addr, acct.storage, IterKeys(acct.storage, slotOrder))

\* The body of commit's loop for one (addr, acct).
CommitAccount(s, addr, acct, slotOrder) ==
    IF acct.is_destroyed \/ is_empty(acct)
        THEN LogCall(s, WriteCall(Accounts(<<addr>>, None)))
        ELSE CommitStorage(LogCall(s, WriteCall(Accounts(<<addr>>, Some(acct.info)))),
                           addr, acct.storage, IterKeys(acct.storage, slotOrder))

\* for (addr, acct) in changes.into_iter() { ... }; a panic ends the loop.
RECURSIVE CommitLoop(_, _, _, _)
CommitLoop(s, changes, addrs, slotOrder) ==
    IF addrs = <<>>
        THEN s
        ELSE CommitLoop(CommitAccount(s, Head(addrs), changes[Head(addrs)], slotOrder),
                        changes, Tail(addrs), slotOrder)

\* Mutant: commit asks the host for a record before it writes.
commit_ReadsHost(log, changes, addrOrder, slotOrder) ==
    CommitLoop(Begin(log, 1), changes, IterKeys(changes, addrOrder), slotOrder)

\* HostDB::commit(changes), the maps iterating in addrOrder and slotOrder
commit(log, changes, addrOrder, slotOrder) ==
    CommitLoop(Begin(log, 0), changes, IterKeys(changes, addrOrder), slotOrder)

HostInit ==
    /\ hlog = DefaultLog
    /\ hcall = Call("none", <<>>, <<>>)
    /\ hret = Pending
    /\ hissued = <<>>
    /\ cursor = 0
    /\ nqueries = 0
    /\ hsealed = FALSE
    /\ AccessIdle
    /\ LogIdle
    /\ TreeIdle
    /\ SplitIdle
    /\ AssocIdle
    /\ FoldIdle

\* The guest can make another call: it has not panicked and the budget of
\* operations, the queries and the commit, is not used up.
HostRunning ==
    /\ ~IsPanic(hret)
    /\ nqueries + (IF hsealed THEN 1 ELSE 0) < MaxCalls

\* The outcome r of the operation `call` becomes the state.
Finish(r, call) ==
    /\ hlog' = r.log
    /\ hissued' = r.issued
    /\ hret' = r.ret
    /\ cursor' = cursor + r.reads
    /\ hcall' = call
    /\ UNCHANGED <<accessVars, logVars, treeVars, splitVars, assocVars, foldVars>>

\* db.basic(address)
HostBasic ==
    /\ HostRunning
    /\ nqueries' = nqueries + 1
    /\ UNCHANGED hsealed
    /\ \E address \in Addrs, acct \in HostAccounts :
           Finish(basic(hlog, address, acct), Call("basic", <<address>>, acct))

\* db.code_by_hash(code_hash)
HostCodeByHash ==
    /\ HostRunning
    /\ nqueries' = nqueries + 1
    /\ UNCHANGED hsealed
    /\ \E code_hash \in CodeHashes, raw_code \in Codes :
           Finish(code_by_hash(hlog, code_hash, raw_code),
                  Call("code_by_hash", <<code_hash>>, raw_code))

\* db.storage(address, index)
HostStorage ==
    /\ HostRunning
    /\ nqueries' = nqueries + 1
    /\ UNCHANGED hsealed
    /\ \E address \in Addrs, index \in Slots, val \in HostWords :
           Finish(storage(hlog, address, index, val),
                  Call("storage", <<address, index>>, val))

\* db.block_hash(number)
HostBlockHash ==
    /\ HostRunning
    /\ nqueries' = nqueries + 1
    /\ UNCHANGED hsealed
    /\ \E number \in U256Numbers, val \in HostHashes :
           Finish(block_hash(hlog, number, val), Call("block_hash", <<number>>, val))

\* db.commit(changes), once, for the transaction executed; queries may follow
HostCommit ==
    /\ HostRunning
    /\ ~hsealed
    /\ hsealed' = TRUE
    /\ UNCHANGED nqueries
    /\ \E changes \in ChangeSets, addrOrder \in AddrOrders, slotOrder \in SlotOrders :
           Finish(commit(hlog, changes, addrOrder, slotOrder),
                  Call("commit", <<changes>>, None))

HostNext ==
    \/ HostBasic
    \/ HostCodeByHash
    \/ HostStorage
    \/ HostBlockHash
    \/ HostCommit

SpecHost == HostInit /\ [][HostNext]_vars

\* ================================================================ claims

\* The value a later access would observe: Read.value, ReadThenWrite.modified
\* or Write.value.
CurrentView(a) == IF a.tag = "ReadThenWrite" THEN a.modified ELSE a.value

\* The value an access observed before doing anything else, if it read at all.
FirstObserved(a) == IF a.tag = "ReadThenWrite" THEN a.original ELSE a.value

\* The merges the harness has computed so far, as <<lhs, rhs, result>>.
ComputedMerges ==
    {t \in {<<ma, mb, mab>>, <<mb, mc, mbc>>, <<mab, mc, mab_c>>, <<ma, mbc, ma_bc>>} :
        t[3] # Pending}

\* The 9-cell table of the specification, as <<lhs variant, rhs variant>> ->
\* result, written without its assertions.
TableCell(l, r) ==
    LET cell == <<l.tag, r.tag>> IN
    IF cell = <<"Read", "Read">> THEN Read(l.value)
    ELSE IF cell = <<"Read", "ReadThenWrite">> THEN ReadThenWrite(r.original, r.modified)
    ELSE IF cell = <<"Read", "Write">> THEN ReadThenWrite(l.value, r.value)
    ELSE IF cell = <<"ReadThenWrite", "Read">> THEN ReadThenWrite(l.original, l.modified)
    ELSE IF cell = <<"ReadThenWrite", "ReadThenWrite">> THEN ReadThenWrite(l.original, r.modified)
    ELSE IF cell = <<"ReadThenWrite", "Write">> THEN ReadThenWrite(l.original, r.value)
    ELSE IF cell = <<"Write", "Read">> THEN Write(l.value)
    ELSE IF cell = <<"Write", "ReadThenWrite">> THEN Write(r.modified)
    ELSE Write(r.value)

\* C1: every Access::merge that returns yields exactly the cell of the 9-cell
\* table for the pair of variants of its operands.
C1_MergeMatchesTable ==
    \A t \in ComputedMerges : ~IsPanic(t[3]) => t[3] = TableCell(t[1], t[2])

\* C1 witness: Write(lw) merged with ReadThenWrite{o, m}, o = lw and m # lw,
\* has returned Write(m).
C1_Witness ==
    /\ ma.tag = "Write"
    /\ mb.tag = "ReadThenWrite"
    /\ mb.original = ma.value
    /\ mb.modified # ma.value
    /\ mab = Write(mb.modified)

\* C2: Access::merge panics if and only if the right operand is Read or
\* ReadThenWrite and the value it observed first differs from the left
\* operand's current view; in particular a merge with a Write on the right
\* never panics and a contradicted value is never overwritten.
C2_MergePanicsIffContradiction ==
    \A t \in ComputedMerges :
        IsPanic(t[3]) <=>
            (t[2].tag \in {"Read", "ReadThenWrite"}
                /\ FirstObserved(t[2]) # CurrentView(t[1]))

\* C2 witness: a ReadThenWrite whose modified value is contradicted by a
\* following Read has panicked, and a merge with a Write on the right of a
\* different value has returned.
C2_Witness ==
    /\ ma.tag = "ReadThenWrite"
    /\ mb.tag = "Read"
    /\ mb.value # ma.modified
    /\ mab = Panic("CausalityViolation")
    /\ mc.tag = "Write"
    /\ mc.value # mb.value
    /\ mbc # Pending
    /\ ~IsPanic(mbc)

\* C3: Access::merge is associative: when a.merge(b), (a.merge(b)).merge(c),
\* b.merge(c) and a.merge(b.merge(c)) all return, the two results are equal.
C3_MergeAssociative ==
    (mab_c # Pending /\ ma_bc # Pending /\ ~IsPanic(mab_c) /\ ~IsPanic(ma_bc))
        => mab_c = ma_bc

\* C3 witness: both bracketings of Write, ReadThenWrite, Write have returned,
\* with three different values in play.
C3_Witness ==
    /\ ma.tag = "Write"
    /\ mb.tag = "ReadThenWrite"
    /\ mc.tag = "Write"
    /\ mb.modified # mb.original
    /\ mc.value # mb.modified
    /\ mab_c # Pending
    /\ ma_bc # Pending
    /\ ~IsPanic(mab_c)
    /\ mab_c = ma_bc

\* ---------------------------------------------- claims on one running log

\* The map of Access records of a key space (accounts or storage).
MapOf(space) == IF space = "Accounts" THEN accounts ELSE state

\* The entries whose key carries an Access record in the log.
AccessEntries == AccountEntries \cup StorageEntries

\* The step just taken issued `call` (and nothing else).
Issued(call) == calls' = Append(calls, call)

\* C4: add_read on a key with no Access installs Read(value); on a key whose
\* Access has a current view equal to value it returns and leaves the stored
\* Access as it was.
C4_AddReadInstallsOrKeeps ==
    [][\A item \in AccessEntries :
        Issued(ReadCall(item)) =>
            LET pre == MapOf(item.space)
                post == MapOf(item.space)'
            IN  /\ item.key \notin DOMAIN pre =>
                    /\ status' = "Ok"
                    /\ item.key \in DOMAIN post
                    /\ post[item.key] = Read(item.value)
                /\ (item.key \in DOMAIN pre
                        /\ CurrentView(pre[item.key]) = item.value) =>
                    /\ status' = "Ok"
                    /\ item.key \in DOMAIN post
                    /\ post[item.key] = pre[item.key]]_vars

\* C4 witness: an account written to Some(1) and then read as Some(1) is
\* still Write(Some(1)).
C4_Witness ==
    /\ calls = <<WriteCall(Accounts(<<1>>, Some(1))), ReadCall(Accounts(<<1>>, Some(1)))>>
    /\ status = "Ok"
    /\ accounts[<<1>>] = Write(Some(1))

\* C5: add_read on a key whose Access has a current view different from the
\* value read panics with a causality violation, whatever the variant.
C5_AddReadMismatchPanics ==
    [][\A item \in AccessEntries :
        (Issued(ReadCall(item))
            /\ item.key \in DOMAIN MapOf(item.space)
            /\ CurrentView(MapOf(item.space)[item.key]) # item.value)
        => status' = "CausalityViolation"]_vars

\* C5 witness: an account written to Some(1) and then read as Some(2) has
\* stopped the guest.
C5_Witness ==
    /\ calls = <<WriteCall(Accounts(<<1>>, Some(1))), ReadCall(Accounts(<<1>>, Some(2)))>>
    /\ status = "CausalityViolation"

\* The Access add_write is to leave on a key, by the Access found there.
WriteTable(map, key, value) ==
    IF key \notin DOMAIN map THEN Write(value)
    ELSE IF map[key].tag = "Read" THEN ReadThenWrite(map[key].value, value)
    ELSE IF map[key].tag = "ReadThenWrite" THEN ReadThenWrite(map[key].original, value)
    ELSE Write(value)

\* C6: add_write(key, value) returns and leaves Write(value) on a key with
\* no Access, ReadThenWrite{r, value} on Read(r), ReadThenWrite{o, value} on
\* ReadThenWrite{o, _} and Write(value) on Write(_).
C6_AddWriteTable ==
    [][\A item \in AccessEntries :
        Issued(WriteCall(item)) =>
            /\ status' = "Ok"
            /\ item.key \in DOMAIN MapOf(item.space)'
            /\ MapOf(item.space)'[item.key]
                    = WriteTable(MapOf(item.space), item.key, item.value)]_vars

\* The access a single call stands for in the fold: Read(v) for add_read,
\* Write(v) for add_write.
Singleton(call) ==
    IF call.op = "add_read" THEN Read(call.item.value) ELSE Write(call.item.value)

\* The left fold of Access::merge over the singleton accesses of the first n
\* calls that are on `key` of `space`: Pending when there is none, a panic
\* from the first failing assertion on.
RECURSIVE FoldCalls(_, _, _)
FoldCalls(space, key, n) ==
    IF n = 0 THEN Pending
    ELSE LET acc == FoldCalls(space, key, n - 1)
             call == calls[n]
         IN  IF call.item.space # space \/ call.item.key # key THEN acc
             ELSE IF acc = Pending THEN Singleton(call)
             ELSE IF IsPanic(acc) THEN acc
             ELSE AccessMerge(acc, Singleton(call))

\* The call sequence was stopped by a panic in a call on `key` of `space`.
AbortedOn(space, key) ==
    /\ status # "Ok"
    /\ calls[Len(calls)].item.space = space
    /\ calls[Len(calls)].item.key = key

\* C7: for every account or storage key, the calls on that key panic exactly
\* when the left fold of Access::merge over their singleton accesses hits a
\* failing assertion, and otherwise the Access stored for the key is that
\* fold (no Access when there was no call).
C7_LogIsFoldOfCalls ==
    \A space \in {"Accounts", "Storage"} :
        \A key \in (IF space = "Accounts" THEN AccountKeys ELSE StorageKeys) :
            LET fold == FoldCalls(space, key, Len(calls)) IN
            /\ AbortedOn(space, key) <=> IsPanic(fold)
            /\ ~AbortedOn(space, key) =>
                IF fold = Pending
                    THEN key \notin DOMAIN MapOf(space)
                    ELSE key \in DOMAIN MapOf(space) /\ MapOf(space)[key] = fold

\* ------------------------------------------------ claims on TxTree::merge

\* A merge has been called (tlhs, trhs are its operands, tout its outcome).
Merged == tlhs # Pending

LeftTag == tlhs.state_change.tag
RightTag == trhs.state_change.tag

\* The transition of the tree the last merge returned.
OutTransition == tout.val.state_change

\* C8: for trees with equal env, TxTree::merge combines the transitions as
\* Applied(a,b)+Applied(b,d)=Applied(a,d), Applied(a,b)+Logged(r)=Hybrid(a,b,r),
\* Applied(a,b)+Hybrid(b,d,r)=Hybrid(a,d,r), Logged(l)+Logged(r)=Logged(merge(l,r)),
\* Hybrid(a,b,l)+Logged(r)=Hybrid(a,b,merge(l,r)), the left tree's log being
\* the left operand of the log merge.
C8_TransitionTable ==
    (Merged /\ tlhs.env = trhs.env) =>
        LET l == tlhs.state_change
            r == trhs.state_change
        IN  /\ (l.tag = "Applied" /\ r.tag = "Applied" /\ l.post = r.pre) =>
                    (~IsPanic(tout) /\ OutTransition = Applied(l.pre, r.post))
            /\ (l.tag = "Applied" /\ r.tag = "Logged") =>
                    (~IsPanic(tout) /\ OutTransition = Hybrid(l.pre, l.post, r.log))
            /\ (l.tag = "Applied" /\ r.tag = "Hybrid" /\ l.post = r.pre) =>
                    (~IsPanic(tout) /\ OutTransition = Hybrid(l.pre, r.mid, r.log))
            /\ (l.tag = "Logged" /\ r.tag = "Logged" /\ ~IsPanic(VecMerge(l.log, r.log))) =>
                    (~IsPanic(tout) /\ OutTransition = Logged(VecMerge(l.log, r.log).val))
            /\ (l.tag = "Hybrid" /\ r.tag = "Logged" /\ ~IsPanic(VecMerge(l.log, r.log))) =>
                    (~IsPanic(tout)
                        /\ OutTransition = Hybrid(l.pre, l.mid, VecMerge(l.log, r.log).val))

\* C8 witness: Hybrid(a, b, l) merged with Logged(r), where l reads a key
\* that r writes (so the log merge does not commute), has returned
\* Hybrid(a, b, l merged with r).
C8_Witness ==
    /\ Merged
    /\ LeftTag = "Hybrid"
    /\ RightTag = "Logged"
    /\ tlhs.state_change.log = <<<<1, Read(None)>>>>
    /\ trhs.state_change.log = <<<<1, Write(Some(1))>>>>
    /\ ~IsPanic(tout)
    /\ OutTransition.log = <<<<1, ReadThenWrite(None, Some(1))>>>>
    /\ OutTransition.pre # OutTransition.mid

\* The four combinations the merge table rejects.
Misordered == LeftTag \in {"Logged", "Hybrid"} /\ RightTag # "Logged"

\* C9 as stated: merge fails with an ordering violation whenever lhs is
\* Logged or Hybrid and rhs is not Logged, and in no other combination.
C9_OrderingViolationOriginal ==
    Merged => (tout = Panic("OrderingViolation") <=> Misordered)

\* C9 as amended: for trees with equal env, merge fails with an ordering
\* violation exactly when lhs is Logged or Hybrid and rhs is not Logged; with
\* different envs it fails on the env comparison, never on the ordering.
C9_OrderingViolationEqualEnv ==
    Merged =>
        (tout = Panic("OrderingViolation") <=> (tlhs.env = trhs.env /\ Misordered))

\* C9 witness: Logged merged with Hybrid under one env has panicked on the
\* ordering.
C9_Witness ==
    /\ Merged
    /\ tlhs.env = trhs.env
    /\ LeftTag = "Logged"
    /\ RightTag = "Hybrid"
    /\ tout = Panic("OrderingViolation")

\* C10: merge panics with an env mismatch whenever the two envs differ,
\* whatever the transitions; a merge that returns had equal envs and its
\* result carries that env.
C10_EnvCheckedFirst ==
    Merged =>
        /\ tlhs.env # trhs.env => tout = Panic("EnvMismatch")
        /\ ~IsPanic(tout) => (tlhs.env = trhs.env /\ tout.val.env = tlhs.env)

\* C10 witness: a misordered pair (Logged, then Applied) with different envs
\* has panicked on the env comparison.
C10_Witness ==
    /\ Merged
    /\ tlhs.env # trhs.env
    /\ LeftTag = "Logged"
    /\ RightTag = "Applied"
    /\ tout = Panic("EnvMismatch")

\* The concatenation of a sequence of sequences, in order.
RECURSIVE Flatten(_)
Flatten(ss) == IF ss = <<>> THEN <<>> ELSE Head(ss) \o Flatten(Tail(ss))

\* C11: a merge that returns yields includes equal to lhs.includes followed
\* by rhs.includes, and after any chain of returning merges the root's
\* includes is the concatenation of the leaves' includes in merge order.
C11_IncludesConcatenated ==
    (Merged /\ ~IsPanic(tout)) =>
        /\ tout.val.includes = tlhs.includes \o trhs.includes
        /\ tout.val.includes = Flatten(tleaves)

\* C11 witness: a chain of two returning merges whose three leaves carry the
\* transactions 1, 2, 1 has a root that includes <<1, 2, 1>>.
C11_Witness ==
    /\ nmerges = 2
    /\ ~IsPanic(tout)
    /\ tleaves = <<<<1>>, <<2>>, <<1>>>>
    /\ tout.val.includes = <<1, 2, 1>>

\* The commitment endpoints of the two operands do not meet.
Gap ==
    /\ LeftTag = "Applied"
    /\ RightTag \in {"Applied", "Hybrid"}
    /\ tlhs.state_change.post # trhs.state_change.pre

\* C12 as stated: merge panics with a causality violation whenever the
\* endpoints do not meet (Applied(a,b)+Applied(c,d) and
\* Applied(a,b)+Hybrid(c,d,r) with b # c).
C12_GapCausalityOriginal ==
    (Merged /\ Gap) => tout = Panic("CausalityViolation")

\* C12 as amended: for trees with equal env a merge whose endpoints do not
\* meet panics with a causality violation; with different envs it panics on
\* the env comparison; in both cases no tree is returned.
C12_GapNeverMerged ==
    (Merged /\ Gap) =>
        tout = (IF tlhs.env = trhs.env
                    THEN Panic("CausalityViolation")
                    ELSE Panic("EnvMismatch"))

\* C12 witness: Applied(a, b) merged with Hybrid(c, d, r), b # c, under one
\* env has panicked with a causality violation.
C12_Witness ==
    /\ Merged
    /\ Gap
    /\ RightTag = "Hybrid"
    /\ tlhs.env = trhs.env
    /\ tout = Panic("CausalityViolation")

\* C13: the merge with the operands swapped either panics or returns a tree
\* whose includes is the right operand's includes followed by the left
\* operand's.
C13_SwappedIncludesReversed ==
    tswap # Pending =>
        (IsPanic(tswap) \/ tswap.val.includes = trhs.includes \o tlhs.includes)

\* C13 witness: both orders of one pair have returned and their includes
\* differ, each being the reversed concatenation of the other.
C13_Witness ==
    /\ tswap # Pending
    /\ ~IsPanic(tswap)
    /\ ~IsPanic(tout)
    /\ tout.val.includes = tlhs.includes \o trhs.includes
    /\ tswap.val.includes = trhs.includes \o tlhs.includes
    /\ tswap.val.includes # tout.val.includes

\* A merged log is strictly ordered: addresses ascend and none comes twice.
StrictlyOrdered(v) == \A i \in 1..(Len(v) - 1) : v[i][1] < v[i + 1][1]

\* The hashed merge, and the merge of merged logs, has returned.
HashedMerged == mout # Pending /\ ~IsPanic(mout)
VecMerged == vout # Pending /\ ~IsPanic(vout)

\* C14: the output of every log merge that returns is strictly ordered by
\* key: the hashed merge of any two logs, and the merge of two merged logs
\* that are themselves strictly ordered.
C14_MergeOutputStrictlyOrdered ==
    /\ HashedMerged => StrictlyOrdered(mout.val)
    /\ (VecMerged /\ StrictlyOrdered(vlhs.val) /\ StrictlyOrdered(vrhs.val)) =>
           StrictlyOrdered(vout.val)

\* C14 witness: the left log holds address 1 only and the right log address
\* 2 only, so the loops push 2 before 1; both merges returned two ordered rows.
C14_Witness ==
    /\ DOMAIN mlhs.accounts = {<<1>>}
    /\ DOMAIN mrhs.accounts = {<<2>>}
    /\ HashedMerged
    /\ VecMerged
    /\ Len(mout.val) = 2
    /\ Len(vout.val) = 2
    /\ StrictlyOrdered(mout.val)
    /\ StrictlyOrdered(vout.val)

\* The key spaces of a log, and those whose keys carry an Access record.
KeySpaces == {"Accounts", "Storage", "Blockhash"}
AccessSpaces == {"Accounts", "Storage"}

\* The map a log keeps for a key space.
LogMap(log, space) ==
    IF space = "Accounts" THEN log.accounts
    ELSE IF space = "Storage" THEN log.state
    ELSE log.blockhashes

\* The <<key, Access>> records a log holds in a key space.
LogRows(log, space) == {<<k, LogMap(log, space)[k]>> : k \in DOMAIN LogMap(log, space)}

\* The <<key, Access>> records a merged log holds in a key space: its rows
\* are (EvmAddress, Access<AccountInfo>), so it has records for accounts only.
MergedRows(v, space) ==
    IF space = "Accounts" THEN {<<<<v[i][1]>>, v[i][2]>> : i \in DOMAIN v} ELSE {}

\* The keys a merged log holds in a key space.
MergedKeys(v, space) == {row[1] : row \in MergedRows(v, space)}

\* The records the claim gives the merge of two sets of records: the merged
\* Access on a key of both, the operand's own Access on a key of one.
CombinedRows(lrows, rrows) ==
    {<<p[1][1], AccessMerge(p[1][2], p[2][2])>> :
        p \in {q \in lrows \X rrows : q[1][1] = q[2][1]}}
        \cup {l \in lrows : \A r \in rrows : r[1] # l[1]}
        \cup {r \in rrows : \A l \in lrows : l[1] # r[1]}

\* C15: in a log merge a key of both operands gets Access.merge(left access,
\* right access), a key of one operand keeps its Access, and no other key is
\* in the output; for the hashed merge in every key space that carries Access
\* records, and for the merge of two merged logs.
C15_MergeCombinesPerKey ==
    /\ HashedMerged =>
           \A space \in AccessSpaces :
               MergedRows(mout.val, space)
                   = CombinedRows(LogRows(mlhs, space), LogRows(mrhs, space))
    /\ VecMerged =>
           MergedRows(vout.val, "Accounts")
               = CombinedRows(MergedRows(vlhs.val, "Accounts"),
                              MergedRows(vrhs.val, "Accounts"))

\* C16: every storage key and every block-hash key accessed in either operand
\* appears in the result of the hashed merge.
C16_StorageAndBlockhashKeysMerged ==
    HashedMerged =>
        \A space \in {"Storage", "Blockhash"} :
            (DOMAIN LogMap(mlhs, space) \cup DOMAIN LogMap(mrhs, space))
                \subseteq MergedKeys(mout.val, space)

\* The log that is merged with the empty log, when one operand is empty.
MergedWithEmpty == IF mrhs = DefaultLog THEN mlhs ELSE mrhs

\* C17: merge(log, empty) and merge(empty, log) return and contain exactly
\* the keys of log, each with the Access it has in log.
C17_EmptyLogIsIdentity ==
    (phase \in {"merged", "remerged"} /\ (mlhs = DefaultLog \/ mrhs = DefaultLog)) =>
        /\ HashedMerged
        /\ \A space \in KeySpaces :
               MergedKeys(mout.val, space) = DOMAIN LogMap(MergedWithEmpty, space)
        /\ \A space \in AccessSpaces :
               MergedRows(mout.val, space) = LogRows(MergedWithEmpty, space)

\* C18: when the whole sequence of calls returns on one log, the merge of the
\* log of the calls before the cut with the log of the calls after it returns
\* and holds the same per-key Access records as that one log.
C18_SplitMergeLossless ==
    (phase \in {"merged", "remerged"} /\ ~IsPanic(whole)) =>
        /\ HashedMerged
        /\ \A space \in AccessSpaces :
               MergedRows(mout.val, space) = LogRows(whole.val, space)

\* C19: the merged log does not depend on the order in which either hash map
\* hands out its entries: every pair of iteration orders gives the result the
\* merge gave, the same rows or the same panic.
C19_MergeIndependentOfIterationOrder ==
    mout # Pending =>
        \A selfOrder \in KeyOrders, rhsOrder \in KeyOrders :
            EvmStateLogMerge(mlhs, mrhs, selfOrder, rhsOrder) = mout

\* C19 witness: two iteration orders leave the loops with different outputs,
\* and the merge has returned the one sorted log of both.
C19_Witness ==
    /\ HashedMerged
    /\ \E o1 \in KeyOrders, o2 \in KeyOrders :
           /\ MergeLoops(mlhs, mrhs, o1, o1) # MergeLoops(mlhs, mrhs, o2, o2)
           /\ EvmStateLogMerge(mlhs, mrhs, o1, o1) = mout
           /\ EvmStateLogMerge(mlhs, mrhs, o2, o2) = mout

\* C20: add_write(Storage(key, None)) returns and leaves the key's current
\* view None, and a later add_read(Storage(key, None)) on that key returns.
C20_ZeroStorageWriteAccepted ==
    [][\A key \in StorageKeys :
        /\ Issued(WriteCall(Storage(key, None))) =>
               (/\ status' = "Ok"
                /\ key \in DOMAIN state'
                /\ CurrentView(state'[key]) = None)
        /\ (/\ Issued(ReadCall(Storage(key, None)))
            /\ calls # <<>>
            /\ calls[Len(calls)] = WriteCall(Storage(key, None))) =>
               status' = "Ok"]_vars

\* C21: the first hash read for a block number is recorded; a later read of
\* the number with the same hash returns and leaves the record as it is; a
\* later read with another hash stops the guest with a causality violation;
\* add_write on a block-hash key always stops the guest; and no step changes
\* or removes a recorded hash.
C21_BlockhashReadOnlySingleValued ==
    [][/\ \A item \in BlockhashEntries :
           /\ Issued(ReadCall(item)) =>
                  IF item.key \notin DOMAIN blockhashes
                      THEN /\ status' = "Ok"
                           /\ blockhashes' = MapInsert(blockhashes, item.key, item.value)
                  ELSE IF blockhashes[item.key] = item.value
                      THEN /\ status' = "Ok"
                           /\ blockhashes' = blockhashes
                  ELSE status' = "CausalityViolation"
           /\ Issued(WriteCall(item)) => status' # "Ok"
       /\ \A n \in DOMAIN blockhashes :
           /\ n \in DOMAIN blockhashes'
           /\ blockhashes'[n] = blockhashes[n]]_vars

\* C21 witness: block 1 was read as Some(1), read again as Some(1), then read
\* as Some(2); the guest has stopped and the record is still Some(1).
C21_Witness ==
    /\ calls = <<ReadCall(Blockhash(<<1>>, Some(1))),
                 ReadCall(Blockhash(<<1>>, Some(1))),
                 ReadCall(Blockhash(<<1>>, Some(2)))>>
    /\ status = "CausalityViolation"
    /\ blockhashes[<<1>>] = Some(1)

\* The step just taken is the query `op` of the HostDB.
Queried(op) == nqueries' = nqueries + 1 /\ hcall'.op = op

\* The step just taken is commit.
Committed == hsealed' /\ ~hsealed

\* A read of `value` on `key` agrees with what the map holds for the key.
Agrees(map, key, value) == key \notin DOMAIN map \/ CurrentView(map[key]) = value

\* C22 as stated: basic panics on an account record with inline code, having
\* issued no read and left the log alone; on any other payload it issues
\* add_read(Accounts(addr, payload)) and returns the payload.
C22_BasicOriginal ==
    [][Queried("basic") =>
        LET key == <<hcall'.args[1]>>
            acct == hcall'.payload
        IN  IF acct # None /\ acct[1].code # None
                THEN /\ IsPanic(hret')
                     /\ hissued' = <<>>
                     /\ hlog' = hlog
                ELSE /\ hissued' = <<ReadCall(Accounts(key, acct))>>
                     /\ hret' = Ok(acct)]_vars

\* C22 as amended: basic panics on an account record with inline code, having
\* issued no read and left the log alone; on any other payload it issues
\* add_read(Accounts(addr, payload)), and returns the payload when the read
\* agrees with the log's current view of addr, with that view now the
\* payload; when it disagrees the call panics with a causality violation.
C22_BasicRejectsInlineCode ==
    [][Queried("basic") =>
        LET key == <<hcall'.args[1]>>
            acct == hcall'.payload
        IN  IF acct # None /\ acct[1].code # None
                THEN /\ hret' = Panic("UnverifiedBytecode")
                     /\ hissued' = <<>>
                     /\ hlog' = hlog
                ELSE /\ hissued' = <<ReadCall(Accounts(key, acct))>>
                     /\ IF Agrees(hlog.accounts, key, acct)
                            THEN /\ hret' = Ok(acct)
                                 /\ key \in DOMAIN hlog'.accounts
                                 /\ CurrentView(hlog'.accounts[key]) = acct
                            ELSE /\ hret' = Panic("CausalityViolation")
                                 /\ hlog' = hlog]_vars

\* C22 witness: address 1 was read once, and a second basic(1) got a record
\* with inline code from the host: it panicked and issued no read.
C22_Witness ==
    /\ nqueries = 2
    /\ hcall.op = "basic"
    /\ hcall.args = <<1>>
    /\ hcall.payload # None
    /\ hcall.payload[1].code # None
    /\ hret = Panic("UnverifiedBytecode")
    /\ hissued = <<>>
    /\ <<1>> \in DOMAIN hlog.accounts

\* C23: code_by_hash(h) returns the bytecode exactly when the bytes read from
\* the host hash to h and panics on any other bytes; either way it issues no
\* call on the log and leaves the log as it was.
C23_CodeByHashVerified ==
    [][Queried("code_by_hash") =>
        /\ hlog' = hlog
        /\ hissued' = <<>>
        /\ IF keccak256(hcall'.payload) = hcall'.args[1]
               THEN hret' = Ok(Bytecode(hcall'.payload, hcall'.args[1]))
               ELSE IsPanic(hret')]_vars

\* C23 witness: on a log that holds a read, code_by_hash(keccak256(1)) got
\* the bytes 1 and returned them.
C23_Witness ==
    /\ hcall = Call("code_by_hash", <<keccak256(1)>>, 1)
    /\ hret = Ok(Bytecode(1, keccak256(1)))
    /\ hlog # DefaultLog

\* C24 as stated: storage(addr, slot) issues add_read(Storage((addr, slot),
\* val)) with the host's Option as it is and returns the word, zero for None.
C24_StorageOriginal ==
    [][Queried("storage") =>
        LET key == <<hcall'.args[1], hcall'.args[2]>>
            val == hcall'.payload
        IN  /\ hissued' = <<ReadCall(Storage(key, val))>>
            /\ hret' = Ok(IF val = None THEN 0 ELSE val[1])]_vars

\* C24 as amended: storage(addr, slot) issues add_read(Storage((addr, slot),
\* val)) with the host's Option as it is; when the read agrees with the log's
\* current view of the slot it returns the word, zero for None, and the view
\* is val (None is not turned into Some(0)); when it disagrees the call
\* panics with a causality violation.
C24_StorageKeepsOption ==
    [][Queried("storage") =>
        LET key == <<hcall'.args[1], hcall'.args[2]>>
            val == hcall'.payload
        IN  /\ hissued' = <<ReadCall(Storage(key, val))>>
            /\ IF Agrees(hlog.state, key, val)
                   THEN /\ hret' = Ok(IF val = None THEN 0 ELSE val[1])
                        /\ key \in DOMAIN hlog'.state
                        /\ CurrentView(hlog'.state[key]) = val
                   ELSE /\ hret' = Panic("CausalityViolation")
                        /\ hlog' = hlog]_vars

\* C24 witness: the host had no value for slot (1, 0): the read is logged as
\* None and the call returned zero.
C24_Witness ==
    /\ hcall = Call("storage", <<1, 0>>, None)
    /\ hret = Ok(0)
    /\ hlog.state[<<1, 0>>] = Read(None)

\* C25 as stated: block_hash(n), n a 64-bit block number, issues
\* add_read(Blockhash(n, val)) and then returns the hash when the host gave
\* one and Err(InvalidBlockHashRequest) when it gave none.
C25_BlockHashOriginal ==
    [][(Queried("block_hash") /\ hcall'.args[1] \in BlockNums) =>
        LET key == <<hcall'.args[1]>>
            val == hcall'.payload
        IN  /\ hissued' = <<ReadCall(Blockhash(key, val))>>
            /\ hret' = (IF val = None THEN Err("InvalidBlockHashRequest") ELSE Ok(val[1]))]_vars

\* C25 as amended: block_hash(n), n a 64-bit block number, issues
\* add_read(Blockhash(n, val)); when the value agrees with the one recorded
\* for n, or none is recorded, the value is recorded and the call returns the
\* hash, or Err(InvalidBlockHashRequest) when the host gave none; when it
\* disagrees the call panics with a causality violation.
C25_BlockHashLoggedThenResult ==
    [][(Queried("block_hash") /\ hcall'.args[1] \in BlockNums) =>
        LET key == <<hcall'.args[1]>>
            val == hcall'.payload
        IN  /\ hissued' = <<ReadCall(Blockhash(key, val))>>
            /\ IF key \notin DOMAIN hlog.blockhashes \/ hlog.blockhashes[key] = val
                   THEN /\ hret' = (IF val = None
                                        THEN Err("InvalidBlockHashRequest")
                                        ELSE Ok(val[1]))
                        /\ key \in DOMAIN hlog'.blockhashes
                        /\ hlog'.blockhashes[key] = val
                   ELSE /\ hret' = Panic("CausalityViolation")
                        /\ hlog' = hlog]_vars

\* C25 witness: the host had no hash for block 1: the read of None is in the
\* log and the call failed with InvalidBlockHashRequest.
C25_Witness ==
    /\ hcall = Call("block_hash", <<1>>, None)
    /\ hret = Err("InvalidBlockHashRequest")
    /\ hissued = <<ReadCall(Blockhash(<<1>>, None))>>
    /\ hlog.blockhashes[<<1>>] = None

\* The change-set of the commit the harness has run.
Changes == hcall.args[1]

\* The positions in hissued of the writes on a key of a key space.
WritesOn(space, key) ==
    {i \in DOMAIN hissued :
        /\ hissued[i].op = "add_write"
        /\ hissued[i].item.space = space
        /\ hissued[i].item.key = key}

\* C26: commit returns, and after it the current view of Accounts(addr) is
\* None for every destroyed or empty account of the change-set and Some(info)
\* for every other one; each touched slot of such an other account with a
\* non-zero new value v has current view Some(v); and the account write was
\* issued before the storage writes of that account.
C26_CommitViews ==
    hcall.op = "commit" =>
        /\ ~IsPanic(hret)
        /\ \A addr \in DOMAIN Changes :
               LET acct == Changes[addr] IN
               /\ <<addr>> \in DOMAIN hlog.accounts
               /\ IF acct.is_destroyed \/ is_empty(acct)
                      THEN CurrentView(hlog.accounts[<<addr>>]) = None
                      ELSE /\ CurrentView(hlog.accounts[<<addr>>]) = Some(acct.info)
                           /\ \A slot \in DOMAIN acct.storage :
                                  /\ acct.storage[slot] # 0 =>
                                         /\ <<addr, slot>> \in DOMAIN hlog.state
                                         /\ CurrentView(hlog.state[<<addr, slot>>])
                                                = Some(acct.storage[slot])
                                  /\ \A i \in WritesOn("Accounts", <<addr>>),
                                        j \in WritesOn("Storage", <<addr, slot>>) : i < j

\* The fatal causes the operations may abort for.
ListedCauses ==
    {"CausalityViolation", "EnvMismatch", "OrderingViolation", "HashMismatch",
     "UnverifiedBytecode", "InvalidBlockHashRequest"}

\* C27: an operation of the HostDB, asked within its interface (block numbers
\* of 64 bits), aborts only for one of the listed causes, and commit, with
\* the add_write calls on account and storage keys it makes, never aborts.
C27_AbortsOnlyForListedCauses ==
    (IsPanic(hret) /\ ~(hcall.op = "block_hash" /\ hcall.args[1] \notin BlockNums)) =>
        /\ hret.kind \in ListedCauses
        /\ hcall.op # "commit"

\* C28: every query reads exactly one record from the host channel, also
\* when it then aborts; commit reads none; and the records consumed are as
\* many as the queries made.
C28_OneRecordPerQuery ==
    [][/\ nqueries' = nqueries + 1 => cursor' = cursor + 1
       /\ Committed => cursor' = cursor
       /\ cursor' = nqueries']_vars

\* C28 witness: three queries were made, the third, a basic answered with
\* inline code, aborted, and three records have been consumed.
C28_Witness ==
    /\ nqueries = 3
    /\ cursor = 3
    /\ hcall.op = "basic"
    /\ hret = Panic("UnverifiedBytecode")

\* C30: commit of a destroyed or empty account issues no write but
\* Accounts(addr, None), also when the change carries storage deltas: every
\* Storage((addr, slot)) Access of the log is what it was, and no Access
\* appears on a slot of the account.
C30_DestroyedKeepsStorage ==
    [][Committed =>
        \A addr \in DOMAIN hcall'.args[1] :
            LET acct == hcall'.args[1][addr] IN
            (acct.is_destroyed \/ is_empty(acct)) =>
                /\ \A i \in DOMAIN hissued' :
                       (hissued'[i].item.key[1] = addr /\ hissued'[i].item.space # "Blockhash")
                           => hissued'[i] = WriteCall(Accounts(<<addr>>, None))
                /\ \A slot \in Slots :
                       IF <<addr, slot>> \in DOMAIN hlog.state
                           THEN /\ <<addr, slot>> \in DOMAIN hlog'.state
                                /\ hlog'.state[<<addr, slot>>] = hlog.state[<<addr, slot>>]
                           ELSE <<addr, slot>> \notin DOMAIN hlog'.state]_vars

\* C30 witness: slot (1, 0) was read as Some(1), then account 1 was committed
\* as destroyed with a delta on that slot: commit returned, the account's
\* view is None and the slot still holds Read(Some(1)).
C30_Witness ==
    /\ hcall.op = "commit"
    /\ ~IsPanic(hret)
    /\ 1 \in DOMAIN Changes
    /\ Changes[1].is_destroyed
    /\ 0 \in DOMAIN Changes[1].storage
    /\ hissued = <<WriteCall(Accounts(<<1>>, None))>>
    /\ <<1>> \in DOMAIN hlog.accounts
    /\ CurrentView(hlog.accounts[<<1>>]) = None
    /\ <<1, 0>> \in DOMAIN hlog.state
    /\ hlog.state[<<1, 0>>] = Read(Some(1))

\* The keys of a key space.
KeysOf(space) ==
    IF space = "Accounts" THEN AccountKeys
    ELSE IF space = "Storage" THEN StorageKeys
    ELSE BlockhashKeys

\* Two maps hold the same for a key: the same entry, or none.
SameAt(m1, m2, key) ==
    IF key \in DOMAIN m1 THEN key \in DOMAIN m2 /\ m2[key] = m1[key] ELSE key \notin DOMAIN m2

\* A map cut down to one key.
OnlyKey(map, key) == [k \in DOMAIN map \cap {key} |-> map[k]]

\* The log cut down to one key of one key space.
OnlyEntry(log, space, key) ==
    EvmStateLog(IF space = "Accounts" THEN OnlyKey(log.accounts, key) ELSE EmptyMap,
                IF space = "Storage" THEN OnlyKey(log.state, key) ELSE EmptyMap,
                IF space = "Blockhash" THEN OnlyKey(log.blockhashes, key) ELSE EmptyMap)

\* C29: an add_read or add_write on a key leaves every other key of its key
\* space and the two other key spaces as they were, and what it does to its
\* own key (the entry it leaves, or its panic) is what it does on a log that
\* holds that key alone; so the log is, key by key, the outcome of the calls
\* on that key in their order, whatever calls on other keys come between.
C29_CallTouchesOneKey ==
    [][calls' # calls =>
        LET call == calls'[Len(calls')]
            item == call.item
            alone == CallOn(OnlyEntry(ThisLog, item.space, item.key), call)
        IN  /\ \A space \in KeySpaces : \A key \in KeysOf(space) :
                   (space # item.space \/ key # item.key) =>
                       SameAt(LogMap(ThisLog, space), LogMap(ThisLog, space)', key)
            /\ IF IsPanic(alone)
                   THEN status' = alone.kind
                   ELSE /\ status' = "Ok"
                        /\ SameAt(LogMap(ThisLog', item.space),
                                  LogMap(alone.val, item.space), item.key)]_vars

\* C29 witness: a write on slot (1, 0) came between a read and a write on
\* account 1; the account holds the ReadThenWrite of its two calls and the
\* slot the Write of its one.
C29_Witness ==
    /\ calls = <<ReadCall(Accounts(<<1>>, Some(1))),
                 WriteCall(Storage(<<1, 0>>, Some(1))),
                 WriteCall(Accounts(<<1>>, Some(2)))>>
    /\ status = "Ok"
    /\ accounts = MapInsert(EmptyMap, <<1>>, ReadThenWrite(Some(1), Some(2)))
    /\ state = MapInsert(EmptyMap, <<1, 0>>, Write(Some(1)))
    /\ blockhashes = EmptyMap

\* C31: when basic, storage or block_hash returns a value, it is the log's
\* current view of the key (an absent slot returned as zero); and when the
\* host's value disagrees with what an earlier read or a committed write left
\* as the key's current view, the call panics instead of returning.
C31_ReturnedValueIsLogView ==
    [][/\ Queried("basic") =>
           LET key == <<hcall'.args[1]>> IN
           /\ ~IsPanic(hret') =>
                  /\ key \in DOMAIN hlog'.accounts
                  /\ hret' = Ok(CurrentView(hlog'.accounts[key]))
           /\ (key \in DOMAIN hlog.accounts
                  /\ CurrentView(hlog.accounts[key]) # hcall'.payload) => IsPanic(hret')
       /\ Queried("storage") =>
           LET key == <<hcall'.args[1], hcall'.args[2]>> IN
           /\ ~IsPanic(hret') =>
                  /\ key \in DOMAIN hlog'.state
                  /\ LET view == CurrentView(hlog'.state[key]) IN
                     hret' = Ok(IF view = None THEN 0 ELSE view[1])
           /\ (key \in DOMAIN hlog.state
                  /\ CurrentView(hlog.state[key]) # hcall'.payload) => IsPanic(hret')
       /\ Queried("block_hash") =>
           LET key == <<hcall'.args[1]>> IN
           /\ hret'.tag = "Ok" =>
                  /\ key \in DOMAIN hlog'.blockhashes
                  /\ hlog'.blockhashes[key] = Some(hret'.val)
           /\ (key \in DOMAIN hlog.blockhashes
                  /\ hlog.blockhashes[key] # hcall'.payload) => IsPanic(hret')]_vars

\* C31 witness: commit wrote account 1 as Some(info); the host then answered
\* basic(1) with None, and the call panicked.
C31_Witness ==
    /\ hsealed
    /\ hcall = Call("basic", <<1>>, None)
    /\ hret = Panic("CausalityViolation")
    /\ <<1>> \in DOMAIN hlog.accounts
    /\ hlog.accounts[<<1>>] = Write(Some(AccountInfo(1, None)))

\* C32: for three trees of one environment, merge(merge(a, b), c) panics
\* exactly when merge(a, merge(b, c)) panics, and when both return, the two
\* trees have the same transition and the same includes.
C32_TreeMergeAssociative ==
    (tab_c # Pending /\ ta_bc # Pending) =>
        /\ IsPanic(tab_c) <=> IsPanic(ta_bc)
        /\ ~IsPanic(tab_c) =>
               /\ tab_c.val.state_change = ta_bc.val.state_change
               /\ tab_c.val.includes = ta_bc.val.includes

\* C32 witness: an Applied, a Hybrid and a Logged tree merged both ways, the
\* two logs meeting on one key; both bracketings returned.
C32_Witness ==
    /\ tab_c # Pending
    /\ ta_bc # Pending
    /\ ~IsPanic(tab_c)
    /\ ~IsPanic(ta_bc)
    /\ ta.state_change.tag = "Applied"
    /\ tb.state_change.tag = "Hybrid"
    /\ tc.state_change.tag = "Logged"
    /\ tb.state_change.log # <<>>
    /\ tc.state_change.log # <<>>
    /\ tab_c.val.includes = <<1, 2, 1>>

\* The records the claim gives the merge of three logs in a key space: the
\* left fold of Access.merge over the logs that hold the key, in order.
FoldedRows(space) ==
    CombinedRows(CombinedRows(LogRows(fa, space), LogRows(fb, space)),
                 LogRows(fc, space))

\* C33: when fa.merge(fb), merged with the merged form of fc, returns, its
\* records are, in every key space that carries Access records, the left fold
\* of Access.merge over fa, fb, fc; and when both bracketings of the merge of
\* the three merged forms return, they return the same merged log.
C33_MergedFoldPerKey ==
    /\ (fab_c # Pending /\ ~IsPanic(fab_c)) =>
           \A space \in AccessSpaces :
               MergedRows(fab_c.val, space) = FoldedRows(space)
    /\ (fva_bc # Pending /\ ~IsPanic(fvab_c) /\ ~IsPanic(fva_bc)) =>
           fvab_c = fva_bc

\* An Access that follows another on the same key keeps what was observed
\* first: the value read stays the Read value or the original, and a Write
\* stays a Write.
KeepsPreState(before, after) ==
    IF before.tag = "Write"
        THEN after.tag = "Write"
        ELSE /\ after.tag \in {"Read", "ReadThenWrite"}
             /\ FirstObserved(after) = FirstObserved(before)

\* Every key of the log before is in the log after, with its pre-state.
LogKeeps(before, after) ==
    /\ \A space \in KeySpaces :
           DOMAIN LogMap(before, space) \subseteq DOMAIN LogMap(after, space)
    /\ \A space \in AccessSpaces :
           \A key \in DOMAIN LogMap(before, space) :
               KeepsPreState(LogMap(before, space)[key], LogMap(after, space)[key])

\* Every record of the merged log on a key the left operand holds keeps the
\* pre-state of the left operand's Access.
RowsKeep(left, merged) ==
    \A row \in merged : \A l \in left :
        l[1] = row[1] => KeepsPreState(l[2], row[2])

====
